---------------------------- MODULE Spec2Model ----------------------------
(***************************************************************************)
(* Adaptive chunking and multi-tenant vector retrieval (RAGAI).            *)
(*                                                                         *)
(* Texts are sequences of one-character strings.  Python indices are       *)
(* 0-based and are kept 0-based here; Slice, rfind and strip follow the    *)
(* Python semantics, negative indices included.                            *)
(*                                                                         *)
(* The specifications share the variables:                                 *)
(*   SpecSplit    one call of split_into_chunks, one step per loop turn    *)
(*   SpecDensity  estimate_text_density under a tunable runtime_config     *)
(*   Spec         the RAG instance registry and the tenant vector stores   *)
(*   SpecIngest   the ledger of documents of one tenant                    *)
(*   SpecSession  the registry and the conversation of one session         *)
(*   SpecThreads  two threads in the store calls, under chroma_lock        *)
(*   SpecLive     the same calls on one store, under fair scheduling       *)
(*   SpecRecord   two threads in add_document on one tenant                *)
(*   SpecCache    store creation while the cached client expires           *)
(*   SpecProcess  the ingestion of text, PDF and DOCX files                *)
(*   SpecUrl      the ingestion of a url and the pages of its sitemap      *)
(***************************************************************************)
EXTENDS Integers, Sequences, FiniteSets, TLC

(***************************************************************************)
(* Bounds of the model.                                                    *)
(***************************************************************************)
MaxLen == 5
MaxChunk == 4
MaxOverlap == 2
MaxIters == 7
MaxWords == 27
MaxTail == 3
MaxTenants == 2
MaxRecords == 2
MaxBatch == 2
MaxK == 2
MaxChats == 2
MaxDocs == 3
MaxPages == 3
MaxSitemap == 1
MaxStored == 2
MaxUrlStored == 3

(***************************************************************************)
(* Characters: a word character, a sentence terminator, two whitespace     *)
(* characters and one character outside the allow-list of clean_text.      *)
(***************************************************************************)
Chars == {"a", ".", " ", "\n", "#"}

IsSpace(c) == c \in {" ", "\n", "\t"}

IsWord(c) == c \in {"a", "b", "A", "_"}

IsTerminator(c) == c \in {".", "!", "?"}

IsKeptPunct(c) == c \in {".", ",", "?", "!", ":", ";", "(", ")", "[", "]", "{", "}", "-"}

Min(a, b) == IF a < b THEN a ELSE b

Max(a, b) == IF a < b THEN b ELSE a

None == -1

\* Python index normalisation of a slice bound i over a string of length n.
PyIndex(i, n) == IF i < 0 THEN Max(i + n, 0) ELSE Min(i, n)

\* Python t[a:b].
Slice(t, a, b) ==
  LET lo == PyIndex(a, Len(t))
      hi == PyIndex(b, Len(t))
  IN  IF lo < hi THEN SubSeq(t, lo + 1, hi) ELSE <<>>

\* Python s.rfind(c) for the characters in cs: the last 0-based index, or -1.
rfind(s, cs) ==
  LET hits == {i \in 1..Len(s) : s[i] \in cs}
  IN  IF hits = {} THEN -1 ELSE (CHOOSE i \in hits : \A j \in hits : j <= i) - 1

\* Python s.strip().
strip(s) ==
  LET keep == {i \in 1..Len(s) : ~IsSpace(s[i])}
  IN  IF keep = {} THEN <<>>
      ELSE SubSeq(s, CHOOSE i \in keep : \A j \in keep : i <= j,
                     CHOOSE i \in keep : \A j \in keep : j <= i)

\* The first re.sub of clean_text: every whitespace run becomes one space.
RECURSIVE CollapseWs(_, _)
CollapseWs(t, i) ==
  IF i > Len(t) THEN <<>>
  ELSE IF IsSpace(t[i])
       THEN IF i > 1 /\ IsSpace(t[i - 1]) THEN CollapseWs(t, i + 1)
            ELSE <<" ">> \o CollapseWs(t, i + 1)
       ELSE <<t[i]>> \o CollapseWs(t, i + 1)

\* The second re.sub of clean_text: drop what is not on the allow-list.
RECURSIVE DropDisallowed(_, _)
DropDisallowed(t, i) ==
  IF i > Len(t) THEN <<>>
  ELSE IF IsWord(t[i]) \/ IsSpace(t[i]) \/ IsKeptPunct(t[i])
       THEN <<t[i]>> \o DropDisallowed(t, i + 1)
       ELSE DropDisallowed(t, i + 1)

clean_text(t) == strip(DropDisallowed(CollapseWs(t, 1), 1))

(***************************************************************************)
(* config.py: the chunk sizes and the runtime configuration.               *)
(***************************************************************************)
CHUNK_OVERLAP == 100

SMALL_CHUNK_SIZE == 300

MEDIUM_CHUNK_SIZE == 500

LARGE_CHUNK_SIZE == 800

MAX_SITEMAP_URLS == 50

RuntimeConfig ==
  [small_chunk_size |-> SMALL_CHUNK_SIZE, medium_chunk_size |-> MEDIUM_CHUNK_SIZE,
   large_chunk_size |-> LARGE_CHUNK_SIZE, max_sitemap_urls |-> MAX_SITEMAP_URLS]

(***************************************************************************)
(* estimate_text_density.  The float comparisons are exact on integers:    *)
(* w / s > 25 iff w > 25 s, w / s < 10 iff w < 10 s, c / n < 0.05 iff      *)
(* 20 c < n, and c / n > 0.15 iff 20 c > 3 n.                              *)
(***************************************************************************)
\* len(text.split()): the number of maximal runs of non-whitespace.
word_count(t) ==
  Cardinality({i \in 1..Len(t) : ~IsSpace(t[i]) /\ (i = 1 \/ IsSpace(t[i - 1]))})

\* len(re.findall('[.!?]+', text)) if a terminator occurs, else 1.
sentence_count(t) ==
  IF \E i \in 1..Len(t) : IsTerminator(t[i])
  THEN Cardinality({i \in 1..Len(t) :
                      IsTerminator(t[i]) /\ (i = 1 \/ ~IsTerminator(t[i - 1]))})
  ELSE 1

\* len(re.findall('[^\w\s]', text)).
special_char_count(t) ==
  Cardinality({i \in 1..Len(t) : ~IsWord(t[i]) /\ ~IsSpace(t[i])})

\* Variant of estimate_text_density that tests the small tier before the large.
estimate_text_density_small_first(t, cfg) ==
  IF t = <<>> THEN cfg.medium_chunk_size
  ELSE LET w == word_count(t)
           s == Max(sentence_count(t), 1)
           c == special_char_count(t)
           n == Max(Len(t), 1)
       IN  IF w < 10 * s \/ 20 * c > 3 * n THEN cfg.small_chunk_size
           ELSE IF w > 25 * s \/ 20 * c < n THEN cfg.large_chunk_size
           ELSE cfg.medium_chunk_size

estimate_text_density(t, cfg) ==
  IF t = <<>> THEN cfg.medium_chunk_size
  ELSE LET w == word_count(t)
           s == Max(sentence_count(t), 1)
           c == special_char_count(t)
           n == Max(Len(t), 1)
       IN  IF w > 25 * s \/ 20 * c < n THEN cfg.large_chunk_size
           ELSE IF w < 10 * s \/ 20 * c > 3 * n THEN cfg.small_chunk_size
           ELSE cfg.medium_chunk_size

(***************************************************************************)
(* split_into_chunks, one loop turn at a time.                             *)
(***************************************************************************)
\* Variant of window_end that lets the window run to the end of the text.
window_end_unbounded(t, s, size) == Len(t)

\* The end of the window at cursor s: min(start + chunk_size, len(text)).
window_end(t, s, size) == Min(s + size, Len(t))

\* Variant of best_split_point that accepts a candidate at any offset.
best_split_point_any_offset(area, overlap) ==
  Max(Max(Max(rfind(area, {"."}), rfind(area, {"?"})), rfind(area, {"!"})),
      rfind(area, {"\n"}))

\* The split point chosen inside the search area, or -1.
best_split_point(area, overlap) ==
  LET last_sentence_end_char ==
        Max(Max(rfind(area, {"."}), rfind(area, {"?"})), rfind(area, {"!"}))
      last_newline == rfind(area, {"\n"})
      by_sentence == IF last_sentence_end_char > overlap
                     THEN last_sentence_end_char ELSE -1
  IN  IF last_newline > overlap /\ last_newline > by_sentence
      THEN last_newline ELSE by_sentence

\* Where the chunk cut at cursor s ends: actual_end_in_text, or end.
cut_end(t, s, size, overlap) ==
  LET end == window_end(t, s, size)
      best == best_split_point(Slice(t, s, Min(s + size, Len(t))), overlap)
  IN  IF end < Len(t) /\ best # -1 THEN s + best + 1 ELSE end

\* Variant of next_start that steps back from the window end, not from the cut.
next_start_from_window_end(t, s, size, overlap) ==
  IF window_end(t, s, size) < Len(t)
  THEN window_end(t, s, size) - overlap
  ELSE window_end(t, s, size)

\* The cursor after the chunk cut at cursor s.
next_start(t, s, size, overlap) ==
  IF window_end(t, s, size) < Len(t)
  THEN cut_end(t, s, size, overlap) - overlap
  ELSE window_end(t, s, size)

\* Variant of short_result without the test for the empty text.
short_result_unconditional(t) == <<t>>

\* return [text] if text else []
short_result(t) == IF t # <<>> THEN <<t>> ELSE <<>>

\* Variant of NonEmpty that keeps every chunk.
NonEmpty_keep_all(c) == TRUE

\* [chunk for chunk in chunks if chunk]
NonEmpty(c) == c # <<>>

Texts == UNION {[1..n -> Chars] : n \in 0..MaxLen}

VARIABLES
  raw_text,        \* split_into_chunks: the text argument as passed
  text,            \* split_into_chunks: the local text after clean_text
  chunk_size,      \* split_into_chunks: the argument (None when omitted), then the size used
  chunk_overlap,   \* split_into_chunks: the argument
  start,           \* split_into_chunks: the cursor
  chunks,          \* split_into_chunks: the list appended to by the loop
  windows,         \* for each appended chunk, the cursor window [start, end) it was cut from
  result,          \* split_into_chunks: the returned list
  pc,              \* position in split_into_chunks: "idle", "call", "loop", "filter", "done"
  runtime_config,  \* config.runtime_config
  density_text,    \* estimate_text_density: the text argument of the last call
  density,         \* estimate_text_density: the value the last call returned
  chroma_client,   \* the cached result of _get_chroma_client: "uncached", "ok" or "None"
  embedding_function, \* the cached result of _get_embedding_function, likewise
  index,           \* the collections of the persistent index, by collection name
  rag_instances,   \* st.session_state.rag_instances, by tenant id
  current_rag_instance, \* st.session_state.current_rag_instance
  messages,        \* st.session_state.messages
  uuids,           \* the tenant ids uuid4 has returned
  next_uuid,       \* the next record id uuid4 returns
  ret,             \* the last call on the registry or a store, and what it returned;
                   \* the arg of a store call made by a thread ends with whether
                   \* the collaborator raised inside it, the arg of process_pdf,
                   \* process_docx and process_url with whether the reader and
                   \* the adds raised
  conversation_context, \* st.session_state.conversation_context
  constructed,     \* how many index clients and embedding functions have been constructed
  chroma_lock,     \* the owner of chroma_lock, 0 when it is free
  threads,         \* per thread, the store method it is in and that method's locals
  add_log          \* the sizes of the batches the last ingestion call passed to
                   \* add_texts, one entry per call of add_texts

segVars == <<raw_text, text, chunk_size, chunk_overlap, start, chunks, windows, result, pc>>

denVars == <<density_text, density>>

\* What the registry calls leave alone: the lock is taken and released inside
\* a call, and the threads are those of the concurrent specifications.
thrVars == <<chroma_lock, threads>>

regVars == <<chroma_client, embedding_function, index, rag_instances,
             current_rag_instance, messages, uuids, next_uuid, ret,
             conversation_context, constructed, thrVars, add_log>>

\* The threads that call into the stores concurrently.
Threads == {1, 2}

\* A thread that is in no call.
IdleThread == [pc |-> "idle", store |-> None, arg |-> <<>>, count |-> None, n |-> None]

\* main.py, lines 30-37.
EmptyContext ==
  [topics |-> {}, entities |-> {}, user_preferences |-> {},
   last_queries |-> <<>>, unresolved_queries |-> <<>>]

vars == <<segVars, runtime_config, denVars, regVars>>

NoCall == [op |-> "none", tenant |-> None, arg |-> <<>>, value |-> <<>>]

RegIdle ==
  /\ chroma_client = "uncached" /\ embedding_function = "uncached"
  /\ index = <<>> /\ rag_instances = <<>>
  /\ current_rag_instance = None /\ messages = <<>>
  /\ uuids = {} /\ next_uuid = 1 /\ ret = NoCall
  /\ conversation_context = EmptyContext
  /\ constructed = [client |-> 0, function |-> 0]
  /\ chroma_lock = 0 /\ threads = [t \in Threads |-> IdleThread]
  /\ add_log = <<>>

DenIdle == density_text = <<>> /\ density = None

SegIdle ==
  /\ raw_text = <<>> /\ text = <<>> /\ chunk_size = None /\ chunk_overlap = 0
  /\ start = 0 /\ chunks = <<>> /\ windows = <<>> /\ result = <<>> /\ pc = "idle"

\* A call split_into_chunks(raw_text, chunk_size, chunk_overlap) is about to run.
InitSplit ==
  /\ raw_text \in Texts
  /\ text = raw_text
  /\ chunk_size \in (1..MaxChunk) \cup {None}
  /\ chunk_overlap \in 0..MaxOverlap
  /\ start = 0 /\ chunks = <<>> /\ windows = <<>> /\ result = <<>>
  /\ pc = "call"
  /\ runtime_config = RuntimeConfig
  /\ DenIdle
  /\ RegIdle

\* Lines 38-47: normalise, pick the size, return short texts at once.
split_call ==
  /\ pc = "call"
  /\ LET t == clean_text(raw_text)
         size == IF chunk_size = None
                 THEN estimate_text_density(t, runtime_config) ELSE chunk_size
     IN  /\ text' = t
         /\ chunk_size' = size
         /\ IF Len(t) <= size
            THEN result' = short_result(t) /\ pc' = "done"
            ELSE result' = result /\ pc' = "loop"
  /\ start' = 0
  /\ chunks' = <<>>
  /\ UNCHANGED <<raw_text, chunk_overlap, windows, runtime_config, denVars, regVars>>

\* Lines 48-87: one turn of the while loop.
split_iterate ==
  /\ pc = "loop"
  /\ start < Len(text)
  /\ Len(chunks) < MaxIters
  /\ LET e == cut_end(text, start, chunk_size, chunk_overlap)
         s == next_start(text, start, chunk_size, chunk_overlap)
     IN  /\ chunks' = Append(chunks, strip(Slice(text, start, e)))
         /\ windows' = Append(windows, [start |-> start, end |-> e])
         /\ start' = s
         /\ pc' = IF s >= Len(text) THEN "filter" ELSE "loop"
  /\ UNCHANGED <<raw_text, text, chunk_size, chunk_overlap, result, runtime_config, denVars,
                 regVars>>

\* Line 89: return the non-empty chunks.
split_return ==
  /\ pc = "filter"
  /\ result' = SelectSeq(chunks, NonEmpty)
  /\ pc' = "done"
  /\ UNCHANGED <<raw_text, text, chunk_size, chunk_overlap, start, chunks, windows,
                 runtime_config, denVars, regVars>>

NextSplit == split_call \/ split_iterate \/ split_return

SpecSplit == InitSplit /\ [][NextSplit]_vars


(***************************************************************************)
(* estimate_text_density under the runtime configuration.  The texts are   *)
(* up to MaxWords one-letter words followed by a free tail; the sizes are  *)
(* positions of the sidebar sliders.                                       *)
(***************************************************************************)
DensityChars == {"a", ".", " ", "#"}

Words(n) == [i \in 1..(2 * n) |-> IF i % 2 = 1 THEN "a" ELSE " "]

DensityTexts ==
  {Words(n) \o tail : n \in 0..MaxWords,
                      tail \in UNION {[1..k -> DensityChars] : k \in 0..MaxTail}}

SmallSizes == {100, 300}

MediumSizes == {300, 500}

LargeSizes == {800}

SitemapSizes == {50}

\* A call estimate_text_density(density_text) is about to run.
InitDensity ==
  /\ SegIdle
  /\ runtime_config = RuntimeConfig
  /\ density_text \in DensityTexts
  /\ density = None
  /\ RegIdle

\* The call returns.
estimate ==
  /\ density = None
  /\ density' = estimate_text_density(density_text, runtime_config)
  /\ UNCHANGED <<segVars, runtime_config, density_text, regVars>>

\* RuntimeConfig.update_chunking_settings; None leaves a setting as it is.
update_chunking_settings(small, medium, large, max_sitemap) ==
  /\ runtime_config' =
       [small_chunk_size |-> IF small # None THEN small
                             ELSE runtime_config.small_chunk_size,
        medium_chunk_size |-> IF medium # None THEN medium
                              ELSE runtime_config.medium_chunk_size,
        large_chunk_size |-> IF large # None THEN large
                             ELSE runtime_config.large_chunk_size,
        max_sitemap_urls |-> IF max_sitemap # None THEN max_sitemap
                             ELSE runtime_config.max_sitemap_urls]
  /\ UNCHANGED <<segVars, denVars, regVars>>

NextDensity ==
  \/ estimate
  \/ \E small \in SmallSizes \cup {None}, medium \in MediumSizes \cup {None},
        large \in LargeSizes \cup {None}, max_sitemap \in SitemapSizes \cup {None} :
       update_chunking_settings(small, medium, large, max_sitemap)

SpecDensity == InitDensity /\ [][NextDensity]_vars

\* The decision table of the density estimate for text t, returned size d
\* and configuration cfg.
DensityTable(t, d, cfg) ==
  LET perSentence25 == word_count(t) > 25 * Max(sentence_count(t), 1)
      perSentence10 == word_count(t) < 10 * Max(sentence_count(t), 1)
      sparse == 20 * special_char_count(t) < Len(t)
      dense == 20 * special_char_count(t) > 3 * Len(t)
      tier == IF t = <<>> THEN "medium"
              ELSE IF perSentence25 \/ sparse THEN "large"
              ELSE IF perSentence10 \/ dense THEN "small"
              ELSE "medium"
  IN  /\ sentence_count(t) >= 1
      /\ d \in {cfg.small_chunk_size, cfg.medium_chunk_size, cfg.large_chunk_size}
      /\ tier = "large" => d = cfg.large_chunk_size
      /\ tier = "small" => d = cfg.small_chunk_size
      /\ tier = "medium" => d = cfg.medium_chunk_size

\* C6: every call of estimate_text_density returns one of the sizes
\* configured at the time of the call: medium for the empty text, and
\* otherwise large when there are more than 25 words per sentence or under 5%
\* special characters, else small when there are fewer than 10 words per
\* sentence or over 15% special characters, else medium, the sentence count
\* being at least 1.
C6_DensityTable ==
  [][density' # density =>
       DensityTable(density_text', density', runtime_config')]_vars

\* Witness of C6: a non-empty text of 10 to 25 words per sentence and 5% to
\* 15% special characters was classed medium under changed settings.
C6_Witness ==
  /\ density_text # <<>>
  /\ density = runtime_config.medium_chunk_size
  /\ density # runtime_config.small_chunk_size
  /\ density # MEDIUM_CHUNK_SIZE
  /\ word_count(density_text) >= 10 * sentence_count(density_text)
  /\ special_char_count(density_text) > 0

(***************************************************************************)
(* The RAG instance registry (rag/instance_manager.py) and the tenant      *)
(* vector stores (data_store/chroma_store.py).                             *)
(*                                                                         *)
(* uuid4 never returns the same value twice.  A tenant id stands for a     *)
(* whole uuid and id_prefix for its first eight hex digits, which two      *)
(* different uuids may share.  Record ids are uuids too, drawn in order    *)
(* from next_uuid; the ids a caller supplies lie outside that range.       *)
(*                                                                         *)
(* The embedding/index collaborator is a black box: each of its calls      *)
(* either raises or does what section 6 of the specification says.         *)
(***************************************************************************)
TenantIds == {11, 12, 21}

id_prefix(id) == id \div 10

Names == {<<"A", " ">>, <<"a", "_">>}

Docs == {"x"}

SuppliedIds == {101}

Filenames == {"a.txt", "b.txt"}

PdfNames == {"b.pdf"}

Urls == {"u"}

Absent == "absent"

NoIds == <<None>>

Range(q) == {q[i] : i \in 1..Len(q)}

SeqsUpTo(S, n) == UNION {[1..k -> S] : k \in 0..n}

\* str.lower() of one character.
lower(c) == IF c = "A" THEN "a" ELSE c

\* name.lower().replace(' ', '_')
slug(name) == [i \in 1..Len(name) |-> IF lower(name[i]) = " " THEN "_" ELSE lower(name[i])]

\* RAGInstance.__init__: rag_<slug>_<id[:8]>.
collection_name(name, id) == <<slug(name), id_prefix(id)>>

\* The store's collection handle still names a collection of the index.
HandleLive(inst, idx) ==
  /\ inst.collection # None
  /\ inst.collection_name \in DOMAIN idx
  /\ idx[inst.collection_name].cid = inst.collection

\* n ids from uuid4, the first being next.
fresh_ids(n, next) == [i \in 1..n |-> next + i - 1]

\* len(ids) != len(set(ids))
has_duplicates(ids) == Len(ids) # Cardinality(Range(ids))

\* Variant of assigned_ids that keeps a supplied id list as it is.
assigned_ids_keep_supplied(texts, ids, next) ==
  IF ids = NoIds
  THEN [ids |-> fresh_ids(Len(texts), next), used |-> Len(texts)]
  ELSE [ids |-> ids, used |-> 0]

\* add_texts, lines 69-74: the ids handed to the collection and the number
\* of uuids generated on the way.
assigned_ids(texts, ids, next) ==
  LET first == IF ids = NoIds THEN fresh_ids(Len(texts), next) ELSE ids
      used == IF ids = NoIds THEN Len(texts) ELSE 0
  IN  IF has_duplicates(first)
      THEN [ids |-> fresh_ids(Len(texts), next + used), used |-> used + Len(texts)]
      ELSE [ids |-> first, used |-> used]

\* collection.add when it does not raise: the records whose id is new are
\* stored, via being the tenant the call came through.
collection_add(idx, inst, texts, ids, via) ==
  LET c == idx[inst.collection_name]
      have == {r.id : r \in c.records}
      recs == {[id |-> ids[i], document |-> texts[i], via |-> via] : i \in 1..Len(texts)}
  IN  [idx EXCEPT ![inst.collection_name].records =
             c.records \cup {r \in recs : r.id \notin have}]

\* ChromaVectorStore.add_texts: the index, the uuid counter and the value
\* returned; raises says whether collection.add raises.
add_texts_result(idx, inst, texts, ids, next, via, raises) ==
  IF texts = <<>> \/ inst.collection = None
  THEN [index |-> idx, next |-> next, value |-> <<>>]
  ELSE LET a == assigned_ids(texts, ids, next)
       IN  IF raises \/ ~HandleLive(inst, idx) \/ Len(a.ids) # Len(texts)
           THEN [index |-> idx, next |-> next + a.used, value |-> <<>>]
           ELSE [index |-> collection_add(idx, inst, texts, a.ids, via),
                 next |-> next + a.used, value |-> a.ids]

\* Variant of get_count without the except clause of line 123: the count is
\* returned whether or not collection.count raised.
get_count_uncaught(idx, inst, raises) ==
  IF inst.collection = None THEN 0
  ELSE IF ~HandleLive(inst, idx) THEN 0
  ELSE Cardinality(idx[inst.collection_name].records)

\* ChromaVectorStore.get_count; raises says whether collection.count raises.
get_count(idx, inst, raises) ==
  IF inst.collection = None THEN 0
  ELSE IF raises \/ ~HandleLive(inst, idx) THEN 0
  ELSE Cardinality(idx[inst.collection_name].records)

\* The result sets collection.query may return for n_results = n.
query_results(idx, inst, n) ==
  {R \in SUBSET idx[inst.collection_name].records : Cardinality(R) = n}

\* RAGInstance.add_document, line 21.
key_field(doc_info) == IF doc_info.type = "url" THEN "url" ELSE "filename"

\* The value of the key field of a summary, Absent when it has none.
field(d, k) == IF k = "url" THEN d.url ELSE d.filename

\* Variant of existing_doc that never finds a summary.
existing_doc_never_found(docs, doc_info) == 0

\* Line 23: the index of the first summary with the key of doc_info, 0 if none.
existing_doc(docs, doc_info) ==
  LET k == key_field(doc_info)
      hits == {i \in 1..Len(docs) : field(docs[i], k) = field(doc_info, k)}
  IN  IF hits = {} THEN 0 ELSE CHOOSE i \in hits : \A j \in hits : i <= j

\* Lines 25-27: dict.update, then chunks from the store's count.
updated_doc(d, doc_info, count) ==
  [type |-> doc_info.type,
   filename |-> IF doc_info.filename # Absent THEN doc_info.filename ELSE d.filename,
   url |-> IF doc_info.url # Absent THEN doc_info.url ELSE d.url,
   chunks |-> count,
   date_updated |-> TRUE]

\* RAGInstance.add_document: documents_info after the call.
add_document_result(docs, doc_info, count) ==
  LET i == IF field(doc_info, key_field(doc_info)) # Absent
           THEN existing_doc(docs, doc_info) ELSE 0
  IN  IF i # 0 THEN [docs EXCEPT ![i] = updated_doc(docs[i], doc_info, count)]
      ELSE Append(docs, doc_info)

\* The doc_info dictionaries the ingestion code builds.
DocInfos ==
  {[type |-> ty, filename |-> f, url |-> Absent, chunks |-> n, date_updated |-> FALSE] :
     ty \in {"pdf", "docx"}, f \in PdfNames, n \in 1..MaxBatch}
  \cup
  {[type |-> "url", filename |-> Absent, url |-> u, chunks |-> n, date_updated |-> FALSE] :
     u \in Urls, n \in 1..MaxBatch}

Extend(f, k, v) == [x \in DOMAIN f \cup {k} |-> IF x = k THEN v ELSE f[x]]

Remove(f, k) == [x \in DOMAIN f \ {k} |-> f[x]]

\* What a cached constructor returns: the cached value, or on the first call
\* the object it builds or None when building raised.
Built(cached) == IF cached = "uncached" THEN {"ok", "None"} ELSE {cached}

InitReg ==
  /\ SegIdle
  /\ runtime_config = RuntimeConfig
  /\ DenIdle
  /\ RegIdle

\* create_rag_instance with RAGInstance.__init__ and ChromaVectorStore.__init__:
\* the client and the embedding function come from the cache or are built
\* and cached, the collection is fetched or created under the tenant's
\* collection name, and the tenant is registered under its new id.
create_rag_instance(name, id, built_client, built_function, raises) ==
  /\ id \notin uuids
  /\ Cardinality(DOMAIN rag_instances) < MaxTenants
  /\ LET client == built_client
         function == built_function
         cname == collection_name(name, id)
         ready == client = "ok" /\ function = "ok" /\ ~raises
         idx == IF ready /\ cname \notin DOMAIN index
                THEN Extend(index, cname, [cid |-> id, records |-> {}]) ELSE index
     IN  /\ chroma_client' = client
         /\ embedding_function' = function
         /\ index' = idx
         /\ rag_instances' =
              Extend(rag_instances, id,
                     [collection_name |-> cname, client |-> client,
                      collection |-> IF ready THEN idx[cname].cid ELSE None,
                      documents_info |-> <<>>])
  /\ constructed' =
       [client |-> constructed.client + (IF chroma_client = "uncached" THEN 1 ELSE 0),
        function |-> constructed.function
                       + (IF embedding_function = "uncached" THEN 1 ELSE 0)]
  /\ uuids' = uuids \cup {id}
  /\ ret' = [op |-> "create", tenant |-> id, arg |-> <<>>, value |-> id]
  /\ UNCHANGED <<segVars, runtime_config, denVars, current_rag_instance, messages, next_uuid,
                 conversation_context, add_log, thrVars>>

\* Variant of switch_rag_instance that selects the id without looking it up.
switch_rag_instance_unchecked(id) ==
  /\ current_rag_instance' = id
  /\ messages' = <<>>
  /\ ret' = [op |-> "switch", tenant |-> id, arg |-> <<>>, value |-> TRUE]
  /\ UNCHANGED <<segVars, runtime_config, denVars, chroma_client, embedding_function,
                 conversation_context, constructed, add_log, thrVars,
                 index, rag_instances, uuids, next_uuid>>

\* switch_rag_instance.
switch_rag_instance(id) ==
  /\ IF id \in DOMAIN rag_instances
     THEN /\ current_rag_instance' = id
          /\ messages' = <<>>
          /\ ret' = [op |-> "switch", tenant |-> id, arg |-> <<>>, value |-> TRUE]
     ELSE /\ UNCHANGED <<current_rag_instance, messages>>
          /\ ret' = [op |-> "switch", tenant |-> id, arg |-> <<>>, value |-> FALSE]
  /\ UNCHANGED <<segVars, runtime_config, denVars, chroma_client, embedding_function,
                 conversation_context, constructed, add_log, thrVars,
                 index, rag_instances, uuids, next_uuid>>

\* ChromaVectorStore.delete_collection: the index after the call and the
\* value returned; the collection is deleted by name.
delete_collection_result(idx, inst, raises) ==
  IF inst.client # "ok" \/ raises \/ inst.collection_name \notin DOMAIN idx
  THEN [index |-> idx, value |-> FALSE]
  ELSE [index |-> Remove(idx, inst.collection_name), value |-> TRUE]

\* Variant of delete_rag_instance that drops the tenant whatever the store's
\* delete returned.
delete_rag_instance_unconditional(id, raises) ==
  /\ IF id \in DOMAIN rag_instances
     THEN LET d == delete_collection_result(index, rag_instances[id], raises)
          IN  /\ index' = d.index
              /\ ret' = [op |-> "delete", tenant |-> id, arg |-> <<>>, value |-> d.value]
              /\ rag_instances' = Remove(rag_instances, id)
              /\ IF current_rag_instance = id
                 THEN current_rag_instance' = None /\ messages' = <<>>
                 ELSE UNCHANGED <<current_rag_instance, messages>>
     ELSE /\ ret' = [op |-> "delete", tenant |-> id, arg |-> <<>>, value |-> FALSE]
          /\ UNCHANGED <<index, rag_instances, current_rag_instance, messages>>
  /\ UNCHANGED <<segVars, runtime_config, denVars, chroma_client, embedding_function,
                 conversation_context, constructed, add_log, thrVars,
                 uuids, next_uuid>>

\* delete_rag_instance.
delete_rag_instance(id, raises) ==
  /\ IF id \in DOMAIN rag_instances
     THEN LET d == delete_collection_result(index, rag_instances[id], raises)
          IN  /\ index' = d.index
              /\ ret' = [op |-> "delete", tenant |-> id, arg |-> <<>>, value |-> d.value]
              /\ IF d.value
                 THEN /\ rag_instances' = Remove(rag_instances, id)
                      /\ IF current_rag_instance = id
                         THEN current_rag_instance' = None /\ messages' = <<>>
                         ELSE UNCHANGED <<current_rag_instance, messages>>
                 ELSE UNCHANGED <<rag_instances, current_rag_instance, messages>>
     ELSE /\ ret' = [op |-> "delete", tenant |-> id, arg |-> <<>>, value |-> FALSE]
          /\ UNCHANGED <<index, rag_instances, current_rag_instance, messages>>
  /\ UNCHANGED <<segVars, runtime_config, denVars, chroma_client, embedding_function,
                 conversation_context, constructed, add_log, thrVars,
                 uuids, next_uuid>>

\* ChromaVectorStore.add_texts on the store of tenant id.
add_texts(id, texts, ids, raises) ==
  /\ id \in DOMAIN rag_instances
  /\ next_uuid + Len(texts) - 1 <= MaxRecords
  /\ LET a == add_texts_result(index, rag_instances[id], texts, ids, next_uuid, id, raises)
     IN  /\ index' = a.index
         /\ next_uuid' = a.next
         /\ ret' = [op |-> "add", tenant |-> id, arg |-> <<Len(texts), ids>>, value |-> a.value]
  /\ UNCHANGED <<segVars, runtime_config, denVars, chroma_client, embedding_function,
                 conversation_context, constructed, add_log, thrVars,
                 rag_instances, current_rag_instance, messages, uuids>>

\* ChromaVectorStore.similarity_search on the store of tenant id; the query
\* text does not enter the model.
similarity_search(id, k, count_raises, query_raises) ==
  /\ id \in DOMAIN rag_instances
  /\ LET inst == rag_instances[id]
         count == IF HandleLive(inst, index)
                  THEN Cardinality(index[inst.collection_name].records) ELSE 0
     IN  IF \/ inst.collection = None
            \/ count_raises \/ ~HandleLive(inst, index)
            \/ count = 0
            \/ query_raises \/ Min(k, count) <= 0
         THEN ret' = [op |-> "search", tenant |-> id, arg |-> <<k>>, value |-> {}]
         ELSE \E R \in query_results(index, inst, Min(k, count)) :
                ret' = [op |-> "search", tenant |-> id, arg |-> <<k>>, value |-> R]
  /\ UNCHANGED <<segVars, runtime_config, denVars, chroma_client, embedding_function,
                 conversation_context, constructed, add_log, thrVars,
                 index, rag_instances, current_rag_instance, messages, uuids, next_uuid>>

\* RAGInstance.add_document on tenant id; raises says whether the count of
\* the live store raises.
add_document(id, doc_info, raises) ==
  /\ id \in DOMAIN rag_instances
  /\ LET inst == rag_instances[id]
         docs == add_document_result(inst.documents_info, doc_info,
                                     get_count(index, inst, raises))
     IN  /\ rag_instances' = [rag_instances EXCEPT ![id].documents_info = docs]
         /\ ret' = [op |-> "add_document", tenant |-> id,
                    arg |-> <<key_field(doc_info), field(doc_info, key_field(doc_info))>>,
                    value |-> <<>>]
  /\ UNCHANGED <<segVars, runtime_config, denVars, chroma_client, embedding_function,
                 conversation_context, constructed, add_log, thrVars,
                 index, current_rag_instance, messages, uuids, next_uuid>>

\* process_uploaded_file for a text file with process_text: the chunks of the
\* file go to the store in one add_texts, and the document is recorded if
\* add_texts returned ids.  instance is None when the caller passes none.
process_uploaded_file(filename, file_chunks, instance, add_raises, count_raises) ==
  /\ next_uuid + Len(file_chunks) - 1 <= MaxRecords
  /\ LET id == IF instance # None THEN instance ELSE current_rag_instance
     IN  IF id \notin DOMAIN rag_instances \/ file_chunks = <<>>
         THEN /\ ret' = [op |-> "process_uploaded_file", tenant |-> id,
                         arg |-> <<filename>>, value |-> 0]
              /\ add_log' = <<>>
              /\ UNCHANGED <<index, next_uuid, rag_instances>>
         ELSE LET inst == rag_instances[id]
                  a == add_texts_result(index, inst, file_chunks, NoIds, next_uuid, id,
                                        add_raises)
                  chunk_count == Len(a.value)
                  doc_info == [type |-> "text_file", filename |-> filename,
                               url |-> Absent, chunks |-> chunk_count,
                               date_updated |-> FALSE]
              IN  /\ index' = a.index
                  /\ next_uuid' = a.next
                  /\ rag_instances' =
                       IF chunk_count > 0
                       THEN [rag_instances EXCEPT ![id].documents_info =
                               add_document_result(inst.documents_info, doc_info,
                                                   get_count(a.index, inst, count_raises))]
                       ELSE rag_instances
                  /\ ret' = [op |-> "process_uploaded_file", tenant |-> id,
                             arg |-> <<filename>>, value |-> chunk_count]
                  /\ add_log' = <<Len(file_chunks)>>
  /\ UNCHANGED <<segVars, runtime_config, denVars, chroma_client, embedding_function,
                 conversation_context, constructed, thrVars,
                 current_rag_instance, messages, uuids>>

Next ==
  \/ \E name \in Names, id \in TenantIds, bc \in Built(chroma_client),
        bf \in Built(embedding_function), raises \in BOOLEAN :
       create_rag_instance(name, id, bc, bf, raises)
  \/ \E id \in TenantIds : switch_rag_instance(id)
  \/ \E id \in TenantIds, raises \in BOOLEAN : delete_rag_instance(id, raises)
  \/ \E id \in TenantIds, texts \in SeqsUpTo(Docs, MaxBatch),
        ids \in SeqsUpTo(SuppliedIds, MaxBatch) \cup {NoIds}, raises \in BOOLEAN :
       add_texts(id, texts, ids, raises)
  \/ \E id \in TenantIds, k \in 0..MaxK, cr, qr \in BOOLEAN :
       similarity_search(id, k, cr, qr)

\* The registry and the stores: tenants are created, selected and deleted,
\* texts are added and searched.
Spec == InitReg /\ [][Next]_vars

\* The ledger of a tenant is touched through that tenant only, so ingestion
\* is followed on one tenant.
LedgerTenants == {11}

NextIngest ==
  \/ \E name \in Names, id \in LedgerTenants, bc \in Built(chroma_client),
        bf \in Built(embedding_function), raises \in BOOLEAN :
       create_rag_instance(name, id, bc, bf, raises)
  \/ \E id \in LedgerTenants : switch_rag_instance(id)
  \/ \E id \in LedgerTenants, doc_info \in DocInfos, raises \in BOOLEAN :
       add_document(id, doc_info, raises)
  \/ \E filename \in Filenames, file_chunks \in SeqsUpTo(Docs, MaxBatch),
        instance \in LedgerTenants \cup {None}, ar, cr \in BOOLEAN :
       process_uploaded_file(filename, file_chunks, instance, ar, cr)

\* Ingestion: tenants are created and selected, files are ingested and
\* documents are recorded in the tenants' ledgers.
SpecIngest == InitReg /\ [][NextIngest]_vars

(***************************************************************************)
(* The chat session (ui/chat_interface.py) over the registry: the          *)
(* conversation context (cag/context_manager.py) and the chat history.     *)
(***************************************************************************)
\* The tenants of the session.
SessionTenants == {11, 21}

\* The queries typed into the chat: "Help" holds the keyword help of the
\* topic support and is a capitalised word.
Queries == {"Help"}

\* What the language model's answer is to the session: an answer, an answer
\* that says it does not know, or an exception on the way to the answer.
Outcomes == {"answer", "dont_know", "error"}

\* utils.extract_topics_and_entities on the queries of the session.
extract_topics_and_entities(q) ==
  [topics |-> IF q = "Help" THEN {"support"} ELSE {},
   entities |-> IF q = "Help" THEN {"Help"} ELSE {}]

\* CAGSystem.update_conversation_context; unresolved says whether a response
\* was passed that holds one of the phrases of line 63.
update_conversation_context(ctx, user_input, unresolved) ==
  LET e == extract_topics_and_entities(user_input)
      queries == Append(ctx.last_queries, user_input)
  IN  [topics |-> ctx.topics \cup e.topics,
       entities |-> ctx.entities \cup e.entities,
       user_preferences |-> ctx.user_preferences,
       last_queries |-> IF Len(queries) > 5 THEN Tail(queries) ELSE queries,
       unresolved_queries |-> IF unresolved
                              THEN Append(ctx.unresolved_queries, user_input)
                              ELSE ctx.unresolved_queries]

\* get_enhanced_user_prompt, lines 65-72: the recent queries the prompt shows.
recent_queries(ctx) ==
  LET q == ctx.last_queries
  IN  IF Len(q) > 1 THEN SubSeq(q, Max(Len(q) - 2, 1), Len(q)) ELSE <<>>

\* generate_response: the kind of response, the conversation context after
\* the call and the recent queries shown in the prompt.
generate_response(query, outcome, count_raises) ==
  IF current_rag_instance = None
  THEN [kind |-> "none_selected", context |-> conversation_context, prompt |-> <<>>]
  ELSE IF get_count(index, rag_instances[current_rag_instance], count_raises) = 0
  THEN [kind |-> "no_data", context |-> conversation_context, prompt |-> <<>>]
  ELSE LET first == update_conversation_context(conversation_context, query, FALSE)
       IN  IF outcome = "error"
           THEN [kind |-> "error", context |-> first, prompt |-> recent_queries(first)]
           ELSE [kind |-> outcome,
                 context |-> update_conversation_context(first, query,
                                                         outcome = "dont_know"),
                 prompt |-> recent_queries(first)]

\* display_chat_interface, lines 116-164: one chat turn.
chat(query, outcome, count_raises) ==
  /\ Len(messages) < 2 * MaxChats
  /\ Len(conversation_context.unresolved_queries) < MaxChats
  /\ LET r == generate_response(query, outcome, count_raises)
         m == messages \o <<[role |-> "user", content |-> query],
                            [role |-> "assistant", content |-> r.kind]>>
     IN  /\ messages' = IF Len(m) > 50 THEN SubSeq(m, Len(m) - 49, Len(m)) ELSE m
         /\ conversation_context' = r.context
         /\ ret' = [op |-> "chat", tenant |-> current_rag_instance, arg |-> <<query>>,
                    value |-> r.prompt]
  /\ UNCHANGED <<segVars, runtime_config, denVars, chroma_client, embedding_function,
                 index, rag_instances, current_rag_instance, uuids, next_uuid,
                 constructed, add_log, thrVars>>

NextSession ==
  \/ \E name \in Names, id \in SessionTenants, bc \in Built(chroma_client),
        bf \in Built(embedding_function), raises \in BOOLEAN :
       create_rag_instance(name, id, bc, bf, raises)
  \/ \E id \in SessionTenants : switch_rag_instance(id)
  \/ \E id \in SessionTenants, raises \in BOOLEAN : delete_rag_instance(id, raises)
  \/ \E id \in SessionTenants, raises \in BOOLEAN :
       add_texts(id, <<"x">>, NoIds, raises)
  \/ \E query \in Queries, outcome \in Outcomes, cr \in BOOLEAN :
       chat(query, outcome, cr)

\* One session: tenants are created, selected and deleted, texts are added
\* and the user chats with the selected tenant.
SpecSession == InitReg /\ [][NextSession]_vars

(***************************************************************************)
(* Concurrent calls into the stores (data_store/chroma_store.py).  Each   *)
(* thread runs one store method at a time.  A method that reaches a        *)
(* `with chroma_lock` block waits for the lock, holds it while its call    *)
(* into the collaborator runs, and releases it when the call returns or    *)
(* raises.                                                                 *)
(***************************************************************************)
\* The tenants whose stores the threads use.
ThreadTenants == {11, 21}

\* Waiting to enter a `with chroma_lock` block, by method.
WaitPcs == {"init_wait", "add_wait", "search_count_wait", "query_wait",
            "count_wait", "delete_wait", "record_count_wait"}

\* Inside a `with chroma_lock` block, in the collaborator's call.
CallPcs == {"init_call", "add_call", "search_count_call", "query_call",
            "count_call", "delete_call", "record_count_call"}

\* The block a waiting thread enters.
CallOf(pc_) ==
  CASE pc_ = "init_wait" -> "init_call"
    [] pc_ = "add_wait" -> "add_call"
    [] pc_ = "search_count_wait" -> "search_count_call"
    [] pc_ = "query_wait" -> "query_call"
    [] pc_ = "count_wait" -> "count_call"
    [] pc_ = "delete_wait" -> "delete_call"
    [] pc_ = "record_count_wait" -> "record_count_call"

\* Variant of can_acquire that lets every thread in.
can_acquire_always(owner, t) == TRUE

\* threading.RLock: a thread enters when the lock is free or its own.
can_acquire(owner, t) == owner \in {0, t}

\* Variant of exit_lock in which an exception inside the block leaves the
\* lock with its owner.
exit_lock_kept_on_raise(t, raises) == IF raises THEN t ELSE 0

\* The owner of chroma_lock when thread t leaves a `with chroma_lock` block,
\* normally or by an exception: the lock is free.
exit_lock(t, raises) == 0

\* Variant of n_results that asks for k results.
n_results_unclamped(k, count) == k

\* similarity_search, line 96: n_results = min(k, count).
n_results(k, count) == Min(k, count)

\* The records the collection of a store holds, none when its handle is stale.
held(idx, inst) ==
  IF HandleLive(inst, idx) THEN Cardinality(idx[inst.collection_name].records) ELSE 0

\* A thread enters the `with chroma_lock` block it waits at.
acquire(t) ==
  /\ threads[t].pc \in WaitPcs
  /\ can_acquire(chroma_lock, t)
  /\ chroma_lock' = t
  /\ threads' = [threads EXCEPT ![t].pc = CallOf(threads[t].pc)]
  /\ UNCHANGED <<segVars, runtime_config, denVars, chroma_client, embedding_function,
                 index, rag_instances, current_rag_instance, messages, uuids, next_uuid,
                 ret, conversation_context, constructed, add_log>>

\* create_rag_instance up to the `with chroma_lock` of _initialize_collection:
\* the id is drawn, the client and the embedding function come from their
\* caches, and a store without one of them is registered with no collection.
init_begin(t, name, id, built_client, built_function) ==
  /\ threads[t].pc = "idle"
  /\ id \notin uuids
  /\ Cardinality(uuids) < MaxTenants
  /\ chroma_client' = built_client
  /\ embedding_function' = built_function
  /\ constructed' =
       [client |-> constructed.client + (IF chroma_client = "uncached" THEN 1 ELSE 0),
        function |-> constructed.function
                       + (IF embedding_function = "uncached" THEN 1 ELSE 0)]
  /\ uuids' = uuids \cup {id}
  /\ IF built_client = "ok" /\ built_function = "ok"
     THEN /\ threads' = [threads EXCEPT ![t] =
                           [IdleThread EXCEPT !.pc = "init_wait", !.store = id,
                                              !.arg = <<collection_name(name, id)>>]]
          /\ UNCHANGED <<rag_instances, ret>>
     ELSE /\ rag_instances' =
               Extend(rag_instances, id,
                      [collection_name |-> collection_name(name, id),
                       client |-> built_client, collection |-> None,
                       documents_info |-> <<>>])
          /\ ret' = [op |-> "create", tenant |-> id, arg |-> <<>>, value |-> id]
          /\ UNCHANGED threads
  /\ UNCHANGED <<segVars, runtime_config, denVars, index, current_rag_instance, messages,
                 next_uuid, conversation_context, add_log, chroma_lock>>

\* _initialize_collection, lines 52-60, and the registration of the tenant:
\* get_or_create_collection returns or raises, and the lock is released.
init_finish(t, raises) ==
  /\ threads[t].pc = "init_call"
  /\ LET id == threads[t].store
         cname == threads[t].arg[1]
         idx == IF ~raises /\ cname \notin DOMAIN index
                THEN Extend(index, cname, [cid |-> id, records |-> {}]) ELSE index
     IN  /\ index' = idx
         /\ rag_instances' =
              Extend(rag_instances, id,
                     [collection_name |-> cname, client |-> "ok",
                      collection |-> IF raises THEN None ELSE idx[cname].cid,
                      documents_info |-> <<>>])
         /\ ret' = [op |-> "create", tenant |-> id, arg |-> <<>>, value |-> id]
  /\ chroma_lock' = exit_lock(t, raises)
  /\ threads' = [threads EXCEPT ![t] = IdleThread]
  /\ UNCHANGED <<segVars, runtime_config, denVars, chroma_client, embedding_function,
                 current_rag_instance, messages, uuids, next_uuid, conversation_context,
                 constructed, add_log>>

\* add_texts, lines 63-74: the early returns and the ids.
add_begin(t, id, texts, ids) ==
  /\ threads[t].pc = "idle"
  /\ id \in DOMAIN rag_instances
  /\ next_uuid + Len(texts) - 1 <= MaxRecords
  /\ IF texts = <<>> \/ rag_instances[id].collection = None
     THEN /\ ret' = [op |-> "add", tenant |-> id, arg |-> <<Len(texts), ids, FALSE>>,
                     value |-> <<>>]
          /\ UNCHANGED <<threads, next_uuid>>
     ELSE LET a == assigned_ids(texts, ids, next_uuid)
          IN  /\ threads' = [threads EXCEPT ![t] =
                               [IdleThread EXCEPT !.pc = "add_wait", !.store = id,
                                                  !.arg = <<texts, a.ids, ids>>]]
              /\ next_uuid' = next_uuid + a.used
              /\ UNCHANGED ret
  /\ UNCHANGED <<segVars, runtime_config, denVars, chroma_client, embedding_function,
                 index, rag_instances, current_rag_instance, messages, uuids,
                 conversation_context, constructed, add_log, chroma_lock>>

\* add_texts, lines 76-82: collection.add returns or raises.
add_finish(t, raises) ==
  /\ threads[t].pc = "add_call"
  /\ LET id == threads[t].store
         inst == rag_instances[id]
         texts == threads[t].arg[1]
         ids == threads[t].arg[2]
         ok == ~raises /\ HandleLive(inst, index) /\ Len(ids) = Len(texts)
     IN  /\ index' = IF ok THEN collection_add(index, inst, texts, ids, id) ELSE index
         /\ ret' = [op |-> "add", tenant |-> id,
                    arg |-> <<Len(texts), threads[t].arg[3], raises>>,
                    value |-> IF ok THEN ids ELSE <<>>]
  /\ chroma_lock' = exit_lock(t, raises)
  /\ threads' = [threads EXCEPT ![t] = IdleThread]
  /\ UNCHANGED <<segVars, runtime_config, denVars, chroma_client, embedding_function,
                 rag_instances, current_rag_instance, messages, uuids, next_uuid,
                 conversation_context, constructed, add_log>>

\* similarity_search, lines 85-87.
search_begin(t, id, k) ==
  /\ threads[t].pc = "idle"
  /\ id \in DOMAIN rag_instances
  /\ IF rag_instances[id].collection = None
     THEN /\ ret' = [op |-> "search", tenant |-> id, arg |-> <<k, FALSE>>,
                     value |-> {}]
          /\ UNCHANGED threads
     ELSE /\ threads' = [threads EXCEPT ![t] =
                           [IdleThread EXCEPT !.pc = "search_count_wait", !.store = id,
                                              !.arg = <<k>>]]
          /\ UNCHANGED ret
  /\ UNCHANGED <<segVars, runtime_config, denVars, chroma_client, embedding_function,
                 index, rag_instances, current_rag_instance, messages, uuids, next_uuid,
                 conversation_context, constructed, add_log, chroma_lock>>

\* similarity_search, lines 89-91: collection.count returns or raises, the
\* lock is released, and an empty collection ends the search.
search_count_finish(t, raises) ==
  /\ threads[t].pc = "search_count_call"
  /\ LET id == threads[t].store
         inst == rag_instances[id]
         count == held(index, inst)
     IN  IF raises \/ ~HandleLive(inst, index) \/ count = 0
         THEN /\ ret' = [op |-> "search", tenant |-> id,
                         arg |-> <<threads[t].arg[1], raises>>, value |-> {}]
              /\ threads' = [threads EXCEPT ![t] = IdleThread]
         ELSE /\ threads' = [threads EXCEPT ![t].pc = "query_wait", ![t].count = count,
                                            ![t].n = n_results(threads[t].arg[1], count)]
              /\ UNCHANGED ret
  /\ chroma_lock' = exit_lock(t, raises)
  /\ UNCHANGED <<segVars, runtime_config, denVars, chroma_client, embedding_function,
                 index, rag_instances, current_rag_instance, messages, uuids, next_uuid,
                 conversation_context, constructed, add_log>>

\* similarity_search, lines 93-116: collection.query returns n results or
\* raises, and the lock is released.
search_query_finish(t, raises) ==
  /\ threads[t].pc = "query_call"
  /\ LET id == threads[t].store
         inst == rag_instances[id]
     IN  IF raises \/ ~HandleLive(inst, index) \/ threads[t].n <= 0
         THEN ret' = [op |-> "search", tenant |-> id,
                      arg |-> <<threads[t].arg[1], raises>>, value |-> {}]
         ELSE \E R \in query_results(index, inst, threads[t].n) :
                ret' = [op |-> "search", tenant |-> id,
                        arg |-> <<threads[t].arg[1], raises>>, value |-> R]
  /\ chroma_lock' = exit_lock(t, raises)
  /\ threads' = [threads EXCEPT ![t] = IdleThread]
  /\ UNCHANGED <<segVars, runtime_config, denVars, chroma_client, embedding_function,
                 index, rag_instances, current_rag_instance, messages, uuids, next_uuid,
                 conversation_context, constructed, add_log>>

\* get_count, line 119.
count_begin(t, id) ==
  /\ threads[t].pc = "idle"
  /\ id \in DOMAIN rag_instances
  /\ IF rag_instances[id].collection = None
     THEN /\ ret' = [op |-> "count", tenant |-> id, arg |-> <<FALSE>>, value |-> 0]
          /\ UNCHANGED threads
     ELSE /\ threads' = [threads EXCEPT ![t] =
                           [IdleThread EXCEPT !.pc = "count_wait", !.store = id]]
          /\ UNCHANGED ret
  /\ UNCHANGED <<segVars, runtime_config, denVars, chroma_client, embedding_function,
                 index, rag_instances, current_rag_instance, messages, uuids, next_uuid,
                 conversation_context, constructed, add_log, chroma_lock>>

\* get_count, lines 120-125.
count_finish(t, raises) ==
  /\ threads[t].pc = "count_call"
  /\ ret' = [op |-> "count", tenant |-> threads[t].store, arg |-> <<raises>>,
             value |-> get_count(index, rag_instances[threads[t].store], raises)]
  /\ chroma_lock' = exit_lock(t, raises)
  /\ threads' = [threads EXCEPT ![t] = IdleThread]
  /\ UNCHANGED <<segVars, runtime_config, denVars, chroma_client, embedding_function,
                 index, rag_instances, current_rag_instance, messages, uuids, next_uuid,
                 conversation_context, constructed, add_log>>

\* delete_collection, line 128.
delete_begin(t, id) ==
  /\ threads[t].pc = "idle"
  /\ id \in DOMAIN rag_instances
  /\ IF rag_instances[id].client # "ok"
     THEN /\ ret' = [op |-> "delete_collection", tenant |-> id, arg |-> <<FALSE>>,
                     value |-> FALSE]
          /\ UNCHANGED threads
     ELSE /\ threads' = [threads EXCEPT ![t] =
                           [IdleThread EXCEPT !.pc = "delete_wait", !.store = id]]
          /\ UNCHANGED ret
  /\ UNCHANGED <<segVars, runtime_config, denVars, chroma_client, embedding_function,
                 index, rag_instances, current_rag_instance, messages, uuids, next_uuid,
                 conversation_context, constructed, add_log, chroma_lock>>

\* delete_collection, lines 129-136.
delete_finish(t, raises) ==
  /\ threads[t].pc = "delete_call"
  /\ LET d == delete_collection_result(index, rag_instances[threads[t].store], raises)
     IN  /\ index' = d.index
         /\ ret' = [op |-> "delete_collection", tenant |-> threads[t].store,
                    arg |-> <<raises>>, value |-> d.value]
  /\ chroma_lock' = exit_lock(t, raises)
  /\ threads' = [threads EXCEPT ![t] = IdleThread]
  /\ UNCHANGED <<segVars, runtime_config, denVars, chroma_client, embedding_function,
                 rag_instances, current_rag_instance, messages, uuids, next_uuid,
                 conversation_context, constructed, add_log>>

NextThreads ==
  \E t \in Threads :
    \/ acquire(t)
    \/ \E name \in Names, id \in ThreadTenants, bc \in Built(chroma_client),
          bf \in Built(embedding_function) :
         init_begin(t, name, id, bc, bf)
    \/ \E raises \in BOOLEAN : init_finish(t, raises)
    \/ \E id \in ThreadTenants, texts \in SeqsUpTo(Docs, 1) : add_begin(t, id, texts, NoIds)
    \/ \E raises \in BOOLEAN : add_finish(t, raises)
    \/ \E id \in ThreadTenants, k \in 0..MaxK : search_begin(t, id, k)
    \/ \E raises \in BOOLEAN : search_count_finish(t, raises)
    \/ \E raises \in BOOLEAN : search_query_finish(t, raises)
    \/ \E id \in ThreadTenants : count_begin(t, id)
    \/ \E raises \in BOOLEAN : count_finish(t, raises)
    \/ \E id \in ThreadTenants : delete_begin(t, id)
    \/ \E raises \in BOOLEAN : delete_finish(t, raises)

\* Two threads create stores and add to, search, count and delete them.
SpecThreads == InitReg /\ [][NextThreads]_vars

\* The tenant, the name and the k of the calls followed to their completion.
LiveTenants == {11}

LiveNames == {<<"a", "_">>}

NextLive ==
  \E t \in Threads :
    \/ acquire(t)
    \/ \E name \in LiveNames, id \in LiveTenants, bc \in Built(chroma_client),
          bf \in Built(embedding_function) :
         init_begin(t, name, id, bc, bf)
    \/ \E raises \in BOOLEAN : init_finish(t, raises)
    \/ \E id \in LiveTenants, texts \in SeqsUpTo(Docs, 1) : add_begin(t, id, texts, NoIds)
    \/ \E raises \in BOOLEAN : add_finish(t, raises)
    \/ \E id \in LiveTenants : search_begin(t, id, 1)
    \/ \E raises \in BOOLEAN : search_count_finish(t, raises)
    \/ \E raises \in BOOLEAN : search_query_finish(t, raises)
    \/ \E id \in LiveTenants : count_begin(t, id)
    \/ \E raises \in BOOLEAN : count_finish(t, raises)
    \/ \E id \in LiveTenants : delete_begin(t, id)
    \/ \E raises \in BOOLEAN : delete_finish(t, raises)

\* Every collaborator call returns or raises, and a thread that waits for
\* the lock gets it at one of the times the lock is free.
FairThreads ==
  \A t \in Threads :
    /\ SF_vars(acquire(t))
    /\ WF_vars(\E raises \in BOOLEAN : init_finish(t, raises))
    /\ WF_vars(\E raises \in BOOLEAN : add_finish(t, raises))
    /\ WF_vars(\E raises \in BOOLEAN : search_count_finish(t, raises))
    /\ WF_vars(\E raises \in BOOLEAN : search_query_finish(t, raises))
    /\ WF_vars(\E raises \in BOOLEAN : count_finish(t, raises))
    /\ WF_vars(\E raises \in BOOLEAN : delete_finish(t, raises))

\* Two threads call into the store of one tenant, under fair scheduling.
SpecLive == InitReg /\ [][NextLive]_vars /\ FairThreads

(***************************************************************************)
(* Concurrent RAGInstance.add_document calls on one tenant.  No lock       *)
(* covers documents_info: a thread may be preempted between the lookup of  *)
(* line 23 and the append of line 29, and between the steps of an update.  *)
(***************************************************************************)
\* Line 25: dict.update.
dict_update(d, doc_info) ==
  [updated_doc(d, doc_info, doc_info.chunks) EXCEPT !.date_updated = d.date_updated]

\* Lines 21-24: the lookup of a summary with the key of doc_info.
record_find(t, id, doc_info) ==
  /\ threads[t].pc = "idle"
  /\ id \in DOMAIN rag_instances
  /\ Len(rag_instances[id].documents_info) < MaxDocs
  /\ LET e == existing_doc(rag_instances[id].documents_info, doc_info)
     IN  threads' = [threads EXCEPT ![t] =
                       [IdleThread EXCEPT
                          !.pc = IF e = 0 THEN "record_append" ELSE "record_update",
                          !.store = id, !.arg = <<doc_info>>, !.n = e]]
  /\ UNCHANGED <<segVars, runtime_config, denVars, chroma_client, embedding_function,
                 index, rag_instances, current_rag_instance, messages, uuids, next_uuid,
                 ret, conversation_context, constructed, add_log, chroma_lock>>

\* Line 29: no summary was found, the new one is appended.
record_append(t) ==
  /\ threads[t].pc = "record_append"
  /\ LET id == threads[t].store
         doc_info == threads[t].arg[1]
     IN  /\ rag_instances' =
              [rag_instances EXCEPT ![id].documents_info = Append(@, doc_info)]
         /\ ret' = [op |-> "add_document", tenant |-> id,
                    arg |-> <<key_field(doc_info), field(doc_info, key_field(doc_info))>>,
                    value |-> <<>>]
  /\ threads' = [threads EXCEPT ![t] = IdleThread]
  /\ UNCHANGED <<segVars, runtime_config, denVars, chroma_client, embedding_function,
                 index, current_rag_instance, messages, uuids, next_uuid,
                 conversation_context, constructed, add_log, chroma_lock>>

\* Lines 25-26: the summary found is updated from doc_info, and the count of
\* the store is asked for; get_count returns 0 at once without a collection.
record_update(t) ==
  /\ threads[t].pc = "record_update"
  /\ LET id == threads[t].store
         doc_info == threads[t].arg[1]
         e == threads[t].n
         d == dict_update(rag_instances[id].documents_info[e], doc_info)
     IN  IF rag_instances[id].collection = None
         THEN /\ rag_instances' =
                   [rag_instances EXCEPT ![id].documents_info[e] =
                      [d EXCEPT !.chunks = 0, !.date_updated = TRUE]]
              /\ ret' = [op |-> "add_document", tenant |-> id,
                         arg |-> <<key_field(doc_info),
                                   field(doc_info, key_field(doc_info))>>,
                         value |-> <<>>]
              /\ threads' = [threads EXCEPT ![t] = IdleThread]
         ELSE /\ rag_instances' = [rag_instances EXCEPT ![id].documents_info[e] = d]
              /\ threads' = [threads EXCEPT ![t].pc = "record_count_wait"]
              /\ UNCHANGED ret
  /\ UNCHANGED <<segVars, runtime_config, denVars, chroma_client, embedding_function,
                 index, current_rag_instance, messages, uuids, next_uuid,
                 conversation_context, constructed, add_log, chroma_lock>>

\* Lines 26-28: the count comes back, chunks and date_updated are set.
record_count_finish(t, raises) ==
  /\ threads[t].pc = "record_count_call"
  /\ LET id == threads[t].store
         doc_info == threads[t].arg[1]
         e == threads[t].n
     IN  /\ rag_instances' =
              [rag_instances EXCEPT ![id].documents_info[e] =
                 [@ EXCEPT !.chunks = get_count(index, rag_instances[id], raises),
                           !.date_updated = TRUE]]
         /\ ret' = [op |-> "add_document", tenant |-> id,
                    arg |-> <<key_field(doc_info), field(doc_info, key_field(doc_info))>>,
                    value |-> <<>>]
  /\ chroma_lock' = exit_lock(t, raises)
  /\ threads' = [threads EXCEPT ![t] = IdleThread]
  /\ UNCHANGED <<segVars, runtime_config, denVars, chroma_client, embedding_function,
                 index, current_rag_instance, messages, uuids, next_uuid,
                 conversation_context, constructed, add_log>>

NextRecord ==
  \/ \E name \in Names, id \in LedgerTenants, bc \in Built(chroma_client),
        bf \in Built(embedding_function), raises \in BOOLEAN :
       create_rag_instance(name, id, bc, bf, raises)
  \/ \E t \in Threads :
       \/ \E id \in LedgerTenants, doc_info \in DocInfos : record_find(t, id, doc_info)
       \/ record_append(t)
       \/ record_update(t)
       \/ acquire(t)
       \/ \E raises \in BOOLEAN : record_count_finish(t, raises)

\* Two threads record documents in the ledger of one tenant.
SpecRecord == InitReg /\ [][NextRecord]_vars

(***************************************************************************)
(* The process-wide caches of the client and of the embedding function.    *)
(* st.cache_resource computes a missing entry once, under its own lock, so *)
(* a lookup is one step; the entry of the client is cached with ttl=3600   *)
(* and is dropped an hour after it was stored, the entry of the embedding  *)
(* function never expires.                                                 *)
(***************************************************************************)
\* Line 24: the cached client, or the cached failure, reaches its ttl.
cache_expire ==
  /\ chroma_client # "uncached"
  /\ chroma_client' = "uncached"
  /\ UNCHANGED <<segVars, runtime_config, denVars, embedding_function, index,
                 rag_instances, current_rag_instance, messages, uuids, next_uuid, ret,
                 conversation_context, constructed, add_log, thrVars>>

NextCache ==
  \/ \E t \in Threads :
       \/ \E name \in Names, id \in TenantIds, bc \in Built(chroma_client),
             bf \in Built(embedding_function) : init_begin(t, name, id, bc, bf)
       \/ acquire(t)
       \/ \E raises \in BOOLEAN : init_finish(t, raises)
  \/ cache_expire

\* Stores are created, also concurrently, while the cache entries age.
SpecCache == InitReg /\ [][NextCache]_vars

(***************************************************************************)
(* The ingestion coordinator: process_pdf, process_docx and process_url.   *)
(* A unit (a page, the joined paragraphs, a fetched page) is given by the  *)
(* number of chunks split_into_chunks cuts from it, None when reading it   *)
(* raises; every chunk is the document "x".  The pages of a PDF give one   *)
(* chunk each.                                                             *)
(***************************************************************************)
\* The text files ingested.
TextNames == {"a.txt"}

\* The units a PDF is made of: its pages.
PageSeqs == SeqsUpTo({None, 1}, MaxPages)

\* What get_sitemap_urls returns, by the chunks of each page; a page that is
\* skipped or whose fetch fails gives no chunks.
SitemapSeqs == SeqsUpTo({0, 1}, MaxSitemap)

\* The url of the i-th page of the sitemap.
SitemapUrl(i) == IF i % 2 = 1 THEN "v" ELSE "w"

\* n chunks.
Batch(n) == [i \in 1..n |-> "x"]

\* len(all_chunks) after the loop over the units from the i-th on: the
\* chunks of the units that were read, a unit that raised being skipped.
RECURSIVE accumulated(_, _)
accumulated(units, i) ==
  IF i > Len(units) THEN 0
  ELSE (IF units[i] = None THEN 0 ELSE units[i]) + accumulated(units, i + 1)

\* Variant of pages_read in which a page that raises ends the loop.
pages_read_until_raise(pages) ==
  LET bad == {i \in 1..Len(pages) : pages[i] = None}
  IN  IF bad = {} THEN pages
      ELSE SubSeq(pages, 1, (CHOOSE i \in bad : \A j \in bad : i <= j) - 1)

\* The pages the loop of process_pdf goes through: all of them, the
\* exception of a page being caught inside the loop (lines 72-85).
pages_read(pages) == pages

\* `if all_chunks: instance.add_texts(...); instance.add_document(...)`:
\* the index, the uuid counter, the ledger and the add_texts calls made.
add_and_record(idx, inst, docs, n, doc_info, next, via, log, add_raises, count_raises) ==
  IF n = 0
  THEN [index |-> idx, next |-> next, docs |-> docs, log |-> log]
  ELSE LET a == add_texts_result(idx, inst, Batch(n), NoIds, next, via, add_raises)
       IN  [index |-> a.index, next |-> a.next,
            docs |-> add_document_result(docs, doc_info,
                                         get_count(a.index, inst, count_raises)),
            log |-> Append(log, n)]

\* process_pdf; reader_raises says whether PdfReader raises.
process_pdf(filename, pages, instance, reader_raises, add_raises, count_raises) ==
  /\ LET id == IF instance # None THEN instance ELSE current_rag_instance
     IN  IF id \notin DOMAIN rag_instances \/ reader_raises
         THEN /\ ret' = [op |-> "process_pdf", tenant |-> id,
                         arg |-> <<filename, pages, <<reader_raises, add_raises>>>>,
                         value |-> 0]
              /\ add_log' = <<>>
              /\ UNCHANGED <<index, next_uuid, rag_instances>>
         ELSE LET inst == rag_instances[id]
                  n == accumulated(pages_read(pages), 1)
                  doc_info == [type |-> "pdf", filename |-> filename, url |-> Absent,
                               chunks |-> n, date_updated |-> FALSE]
                  r == add_and_record(index, inst, inst.documents_info, n, doc_info,
                                      next_uuid, id, <<>>, add_raises, count_raises)
              IN  /\ r.next - 1 <= MaxStored
                  /\ index' = r.index
                  /\ next_uuid' = r.next
                  /\ rag_instances' = [rag_instances EXCEPT ![id].documents_info = r.docs]
                  /\ add_log' = r.log
                  /\ ret' = [op |-> "process_pdf", tenant |-> id,
                             arg |-> <<filename, pages, <<reader_raises, add_raises>>>>,
                         value |-> n]
  /\ UNCHANGED <<segVars, runtime_config, denVars, chroma_client, embedding_function,
                 conversation_context, constructed, thrVars,
                 current_rag_instance, messages, uuids>>

\* process_docx; n is the number of chunks of the joined paragraphs and
\* doc_raises says whether docx.Document raises.
process_docx(filename, n, instance, doc_raises, add_raises, count_raises) ==
  /\ LET id == IF instance # None THEN instance ELSE current_rag_instance
     IN  IF id \notin DOMAIN rag_instances \/ doc_raises
         THEN /\ ret' = [op |-> "process_docx", tenant |-> id,
                         arg |-> <<filename, <<n>>, <<doc_raises, add_raises>>>>,
                         value |-> 0]
              /\ add_log' = <<>>
              /\ UNCHANGED <<index, next_uuid, rag_instances>>
         ELSE LET inst == rag_instances[id]
                  doc_info == [type |-> "docx", filename |-> filename, url |-> Absent,
                               chunks |-> n, date_updated |-> FALSE]
                  r == add_and_record(index, inst, inst.documents_info, n, doc_info,
                                      next_uuid, id, <<>>, add_raises, count_raises)
              IN  /\ r.next - 1 <= MaxStored
                  /\ index' = r.index
                  /\ next_uuid' = r.next
                  /\ rag_instances' = [rag_instances EXCEPT ![id].documents_info = r.docs]
                  /\ add_log' = r.log
                  /\ ret' = [op |-> "process_docx", tenant |-> id,
                             arg |-> <<filename, <<n>>, <<doc_raises, add_raises>>>>,
                         value |-> n]
  /\ UNCHANGED <<segVars, runtime_config, denVars, chroma_client, embedding_function,
                 conversation_context, constructed, thrVars,
                 current_rag_instance, messages, uuids>>

\* The loop over the sitemap, from its i-th page on: process_single_url with
\* is_main_url false extends all_url_chunks and, lines 302-313, adds the
\* chunks of the page to the store and records the page.  st holds the
\* index, the uuid counter, the ledger, the add_texts calls made and
\* len(all_url_chunks).
RECURSIVE sitemap_pages(_, _, _, _, _, _, _)
sitemap_pages(st, sitemap, i, inst, via, add_raises, count_raises) ==
  IF i > Len(sitemap) THEN st
  ELSE LET k == sitemap[i]
           doc_info == [type |-> "url", filename |-> Absent, url |-> SitemapUrl(i),
                        chunks |-> k, date_updated |-> FALSE]
           r == add_and_record(st.index, inst, st.docs, k, doc_info, st.next, via,
                               st.log, add_raises, count_raises)
       IN  sitemap_pages([index |-> r.index, next |-> r.next, docs |-> r.docs,
                          log |-> r.log, all |-> st.all + k],
                         sitemap, i + 1, inst, via, add_raises, count_raises)

\* process_url; main is the number of chunks of the page at url, 0 when its
\* fetch fails, sitemap is what get_sitemap_urls finds, page_add_raises and
\* add_raises say whether collection.add raises in the adds of lines 303
\* and 371.
process_url(url, main, sitemap, use_sitemap, instance, page_add_raises, add_raises, count_raises) ==
  /\ LET id == IF instance # None THEN instance ELSE current_rag_instance
         units == <<main>> \o (IF use_sitemap /\ main > 0 THEN sitemap ELSE <<>>)
     IN  IF id \notin DOMAIN rag_instances
         THEN /\ ret' = [op |-> "process_url", tenant |-> id,
                         arg |-> <<url, units, <<page_add_raises, add_raises>>>>,
                         value |-> 0]
              /\ add_log' = <<>>
              /\ UNCHANGED <<index, next_uuid, rag_instances>>
         ELSE LET inst == rag_instances[id]
                  st == sitemap_pages([index |-> index, next |-> next_uuid,
                                       docs |-> inst.documents_info, log |-> <<>>,
                                       all |-> main],
                                      Tail(units), 1, inst, id, page_add_raises,
                                      count_raises)
                  doc_info == [type |-> "url", filename |-> Absent, url |-> url,
                               chunks |-> st.all, date_updated |-> FALSE]
                  r == add_and_record(st.index, inst, st.docs, st.all, doc_info,
                                      st.next, id, st.log, add_raises, count_raises)
              IN  /\ r.next - 1 <= MaxUrlStored
                  /\ index' = r.index
                  /\ next_uuid' = r.next
                  /\ rag_instances' = [rag_instances EXCEPT ![id].documents_info = r.docs]
                  /\ add_log' = r.log
                  /\ ret' = [op |-> "process_url", tenant |-> id,
                             arg |-> <<url, units, <<page_add_raises, add_raises>>>>,
                         value |-> st.all]
  /\ UNCHANGED <<segVars, runtime_config, denVars, chroma_client, embedding_function,
                 conversation_context, constructed, thrVars,
                 current_rag_instance, messages, uuids>>

\* The tenant that ingests has a client, an embedding function and a
\* collection: the failures followed here are those of the ingestion itself.
NextProcess ==
  \/ \E name \in LiveNames, id \in LedgerTenants :
       create_rag_instance(name, id, "ok", "ok", FALSE)
  \/ \E filename \in TextNames, file_chunks \in SeqsUpTo(Docs, 1), ar, cr \in BOOLEAN :
       process_uploaded_file(filename, file_chunks, 11, ar, cr)
  \/ \E filename \in PdfNames, pages \in PageSeqs, rr, ar, cr \in BOOLEAN :
       process_pdf(filename, pages, 11, rr, ar, cr)
  \/ \E filename \in PdfNames, n \in 0..MaxBatch, dr, ar, cr \in BOOLEAN :
       process_docx(filename, n, 11, dr, ar, cr)

\* Files are ingested into one tenant.
SpecProcess == InitReg /\ [][NextProcess]_vars

NextUrl ==
  \/ \E name \in LiveNames, id \in LedgerTenants :
       create_rag_instance(name, id, "ok", "ok", FALSE)
  \/ \E url \in Urls, main \in {0, 1}, sitemap \in SitemapSeqs,
        use_sitemap, pr, ar, cr \in BOOLEAN :
       process_url(url, main, sitemap, use_sitemap, 11, pr, ar, cr)

\* Urls are ingested into one tenant.
SpecUrl == InitReg /\ [][NextUrl]_vars

(***************************************************************************)
(* Segmentation properties.                                                *)
(***************************************************************************)
\* The cursor after the i-th loop turn.
CursorAfter(i) == IF i < Len(windows) THEN windows[i + 1].start ELSE start

\* The text positions covered by the i-th window, as Python slices them.
Positions(i) ==
  PyIndex(windows[i].start, Len(text)) .. (PyIndex(windows[i].end, Len(text)) - 1)

\* What the i-th window contributes once its overlapped prefix is removed.
RECURSIVE Reconstructed(_)
Reconstructed(i) ==
  IF i = 0 THEN <<>>
  ELSE Reconstructed(i - 1)
         \o Slice(text, IF i = 1 THEN windows[1].start ELSE windows[i - 1].end,
                  windows[i].end)

\* The trimmed chunk the i-th window yields.
ChunkOf(i) == strip(Slice(text, windows[i].start, windows[i].end))

Kept == {i \in 1..Len(windows) : ChunkOf(i) # <<>>}

\* The k-th smallest element of Kept.
KthKept(k) == CHOOSE i \in Kept : Cardinality({j \in Kept : j <= i}) = k

\* C1: split_into_chunks terminates for every chunk_size >= 1 and every
\* overlap: each loop turn leaves the cursor strictly beyond where the turn
\* began, so there are at most len(text) turns.
C1_CursorAdvances ==
  /\ \A i \in 1..Len(windows) : CursorAfter(i) > windows[i].start
  /\ Len(windows) <= Len(text)

\* C2: when the normalized text is longer than chunk_size the windows are in
\* increasing order, the first starts at 0, every window starts no later than
\* the end of the one before, the last ends at len(text), and the windows
\* with their overlapped prefixes removed concatenate to the normalized text.
C2_Coverage ==
  (pc \in {"loop", "filter", "done"} /\ Len(text) > chunk_size) =>
    /\ windows # <<>> => windows[1].start = 0
    /\ \A i \in 1..(Len(windows) - 1) :
         /\ windows[i].start < windows[i + 1].start
         /\ windows[i].end < windows[i + 1].end
         /\ windows[i + 1].start <= windows[i].end
    /\ pc \in {"filter", "done"} =>
         /\ windows[Len(windows)].end = Len(text)
         /\ Reconstructed(Len(windows)) = text

\* C3: every returned chunk is non-empty, and the returned chunks are the
\* non-empty trimmed windows in the order of their strictly increasing start
\* offsets.
C3_NonEmptyOrdered ==
  pc = "done" =>
    /\ \A k \in 1..Len(result) : result[k] # <<>>
    /\ windows # <<>> =>
         /\ Len(result) = Cardinality(Kept)
         /\ \A k \in 1..Len(result) : result[k] = ChunkOf(KthKept(k))
         /\ \A i \in 1..(Len(windows) - 1) : windows[i].start < windows[i + 1].start

\* Witness of C3: a finished call whose loop cut an all-whitespace window,
\* which the return filtered out, and that returned two chunks or more.
C3_Witness == pc = "done" /\ Len(result) >= 2 /\ Len(result) < Len(chunks)

\* C4: after a non-final chunk ending at b the cursor is b - overlap, after
\* the final window it is the end of the text, and two consecutive windows
\* share at most overlap positions of the normalized text.
C4_OverlapBound ==
  /\ \A i \in 1..Len(windows) :
       CursorAfter(i) = IF windows[i].end < Len(text)
                        THEN windows[i].end - chunk_overlap ELSE windows[i].end
  /\ \A i \in 1..(Len(windows) - 1) :
       Cardinality(Positions(i) \cap Positions(i + 1)) <= chunk_overlap

\* Witness of C4: a finished call with a positive overlap whose first chunk
\* was cut at a sentence end before the end of its window.
C4_Witness ==
  /\ pc = "done" /\ chunk_overlap > 0 /\ Len(windows) >= 2
  /\ windows[1].end < chunk_size
  /\ Cardinality(Positions(1) \cap Positions(2)) = chunk_overlap

\* C5: a normalized text no longer than chunk_size is returned as the single
\* chunk, and the empty normalized text as the empty list.
C5_ShortText ==
  (pc = "done" /\ Len(clean_text(raw_text)) <= chunk_size) =>
    result = IF clean_text(raw_text) = <<>> THEN <<>> ELSE <<clean_text(raw_text)>>

\* Witness of C5: a call that returned a one-chunk list for a text that the
\* normalization changed.
C5_Witness ==
  /\ pc = "done" /\ Len(text) <= chunk_size /\ Len(result) = 1
  /\ text # raw_text /\ Len(text) = chunk_size

\* The coverage of C2 where chunk_size exceeds the overlap.
CoverageAboveOverlap == chunk_size > chunk_overlap => C2_Coverage

\* The advance of C1 where chunk_size exceeds the overlap.
AdvanceAboveOverlap == chunk_size > chunk_overlap => C1_CursorAdvances


(***************************************************************************)
(* Registry, store and ledger properties.                                  *)
(***************************************************************************)
\* C7: every record a search on a tenant returns was added through that
\* tenant.
C7_TenantIsolation ==
  ret.op = "search" => \A r \in ret.value : r.via = ret.tenant

\* Tenants whose ids differ in the first eight hex digits are isolated.
IsolationByPrefix ==
  (\A t, u \in DOMAIN rag_instances : t # u => id_prefix(t) # id_prefix(u))
    => C7_TenantIsolation

\* C8: an add whose supplied ids contain a duplicate keeps none of them: when
\* it stores the texts it returns one fresh id per text, the ids are pairwise
\* distinct, and each is the id of a record of its own in the tenant's
\* collection; otherwise it returns the empty list.
C8_DuplicateIdsRegenerated ==
  (/\ ret.op = "add"
   /\ ret.arg[2] # NoIds
   /\ Len(ret.arg[2]) # Cardinality(Range(ret.arg[2]))
   /\ ret.value # <<>>) =>
    LET inst == rag_instances[ret.tenant]
        returned == Range(ret.value)
    IN  /\ Len(ret.value) = ret.arg[1]
        /\ Cardinality(returned) = Len(ret.value)
        /\ returned \cap Range(ret.arg[2]) = {}
        /\ Cardinality({r \in index[inst.collection_name].records : r.id \in returned})
             = ret.arg[1]

\* Witness of C8: two texts were added under the same supplied id and two
\* ids came back.
C8_Witness ==
  /\ ret.op = "add" /\ ret.arg = <<2, <<101, 101>>>> /\ Len(ret.value) = 2

\* The key of a summary: its url for a url summary, its filename otherwise.
KeyOf(d) == <<key_field(d), field(d, key_field(d))>>

KeysOf(docs) == {KeyOf(docs[i]) : i \in 1..Len(docs)}

\* C9: a ledger holds at most one summary per key, and recording a document
\* either appends a summary whose key the ledger did not hold or, when the
\* key is held already, updates that summary and leaves the length as it was.
C9_OneSummaryPerKey ==
  [][\A t \in DOMAIN rag_instances \cap DOMAIN rag_instances' :
       LET before == rag_instances[t].documents_info
           after == rag_instances'[t].documents_info
       IN  /\ Cardinality(KeysOf(after)) = Len(after)
           /\ \/ Len(after) = Len(before)
              \/ /\ Len(after) = Len(before) + 1
                 /\ KeyOf(after[Len(after)]) \notin KeysOf(before)
           /\ (ret'.op = "add_document" /\ ret'.tenant = t
                 /\ ret'.arg \in KeysOf(before)) =>
                /\ Len(after) = Len(before)
                /\ \E i \in 1..Len(after) :
                     KeyOf(after[i]) = ret'.arg /\ after[i].date_updated]_vars

\* Witness of C9: a ledger of two summaries or more, one of which was
\* updated in place by the last call.
C9_Witness ==
  /\ ret.op = "add_document"
  /\ ret.tenant \in DOMAIN rag_instances
  /\ LET docs == rag_instances[ret.tenant].documents_info
     IN  /\ Len(docs) >= 2
         /\ \E i \in 1..Len(docs) : KeyOf(docs[i]) = ret.arg /\ docs[i].date_updated

\* C10: after a text file is ingested, the ledger has exactly one summary
\* for its filename, and the chunks of that summary are the chunks of this
\* latest ingestion (stated for the case where the summary shows a count).
C10_LatestChunkCount ==
  (/\ ret.op = "process_uploaded_file"
   /\ ret.value > 0) =>
    LET docs == rag_instances[ret.tenant].documents_info
        hits == {i \in 1..Len(docs) : docs[i].filename = ret.arg[1]}
    IN  /\ Cardinality(hits) = 1
        /\ \A i \in hits : docs[i].chunks > 0 => docs[i].chunks = ret.value


(***************************************************************************)
(* Session properties.                                                     *)
(***************************************************************************)
\* The conversation held in the session: the chat history and the recorded
\* recent queries, topics, entities and unresolved queries.
ConversationCleared ==
  /\ messages = <<>>
  /\ conversation_context.last_queries = <<>>
  /\ conversation_context.topics = {}
  /\ conversation_context.entities = {}
  /\ conversation_context.unresolved_queries = <<>>

\* C13: deletion is two-phase.  A delete of a registered tenant whose store
\* delete failed returns false and leaves the registry, the index, the
\* active selection and the conversation as they were; one whose store
\* delete succeeded removes the tenant and its collection; and a tenant
\* leaves the registry only by such a successful delete.
C13_TwoPhaseDelete ==
  [][/\ (ret'.op = "delete" /\ ret'.tenant \in DOMAIN rag_instances) =>
          IF ret'.value
          THEN /\ ret'.tenant \notin DOMAIN rag_instances'
               /\ rag_instances[ret'.tenant].collection_name \in DOMAIN index
               /\ rag_instances[ret'.tenant].collection_name \notin DOMAIN index'
          ELSE UNCHANGED <<rag_instances, index, current_rag_instance, messages,
                           conversation_context>>
     /\ \A id \in DOMAIN rag_instances \ DOMAIN rag_instances' :
          ret'.op = "delete" /\ ret'.tenant = id /\ ret'.value]_vars

\* Witness of C13: a delete of the active tenant failed in the middle of a
\* conversation, and the tenant is still registered and active.
C13_Witness ==
  /\ ret.op = "delete" /\ ret.value = FALSE
  /\ ret.tenant \in DOMAIN rag_instances
  /\ current_rag_instance = ret.tenant
  /\ messages # <<>>

\* C14: after a successful switch nothing of the conversation held before
\* it is left: the chat history is empty and so are the recorded recent
\* queries, topics, entities and unresolved queries.
C14_SwitchClearsConversation ==
  (ret.op = "switch" /\ ret.value) => ConversationCleared

\* A successful switch clears the chat history.
SwitchClearsMessages ==
  (ret.op = "switch" /\ ret.value) => messages = <<>>

\* C15: a switch to an id that is not registered returns false and leaves
\* the active selection, the conversation and the registry as they were.
C15_UnknownSwitchChangesNothing ==
  [][(ret'.op = "switch" /\ ret'.tenant \notin DOMAIN rag_instances) =>
       /\ ret'.value = FALSE
       /\ UNCHANGED <<current_rag_instance, messages, conversation_context,
                      rag_instances, index>>]_vars

\* Witness of C15: a switch to an unknown id returned false while a tenant
\* was active and a conversation was under way.
C15_Witness ==
  /\ ret.op = "switch" /\ ret.value = FALSE
  /\ current_rag_instance # None
  /\ messages # <<>>
  /\ conversation_context.last_queries # <<>>

\* C16: a successful delete of the active tenant sets the active selection
\* to none and clears the conversation; a successful delete of another
\* tenant leaves the active selection and the conversation as they were.
C16_DeleteOfActiveClears ==
  [][(ret'.op = "delete" /\ ret'.tenant \in DOMAIN rag_instances /\ ret'.value) =>
       IF current_rag_instance = ret'.tenant
       THEN current_rag_instance' = None /\ ConversationCleared'
       ELSE UNCHANGED <<current_rag_instance, messages, conversation_context>>]_vars

\* What delete does to the active selection and the chat history alone.
DeleteOfActiveClearsMessages ==
  [][(ret'.op = "delete" /\ ret'.tenant \in DOMAIN rag_instances /\ ret'.value) =>
       IF current_rag_instance = ret'.tenant
       THEN current_rag_instance' = None /\ messages' = <<>>
       ELSE UNCHANGED <<current_rag_instance, messages, conversation_context>>]_vars


(***************************************************************************)
(* Properties of the stores under concurrent calls.                        *)
(***************************************************************************)
\* C11: a search asks a collection for no more results than it holds, it
\* returns no more than min(k, record count) results, and on a store with
\* zero records it ends with the empty result at the count.
C11_SearchClamped ==
  [][\A t \in Threads :
       LET inst == rag_instances[threads[t].store]
       IN  /\ (threads'[t].pc = "query_call" /\ HandleLive(inst, index')) =>
                threads'[t].n <= held(index', inst)
           /\ (threads[t].pc \in {"search_count_call", "query_call"}
                 /\ threads'[t].pc = "idle") =>
                /\ ret'.op = "search"
                /\ Cardinality(ret'.value) <= Min(ret'.arg[1], held(index', inst))
           /\ (threads[t].pc = "search_count_call" /\ threads'[t] # threads[t]
                 /\ held(index, inst) = 0) =>
                threads'[t].pc = "idle" /\ ret'.value = {}]_vars

\* Witness of C11: a search for more results than the collection holds
\* returned the records of the collection.
C11_Witness ==
  /\ ret.op = "search" /\ ret.value # {}
  /\ Cardinality(ret.value) < ret.arg[1]
  /\ \A t \in Threads : threads[t].pc = "idle"

\* A store whose index client or embedding function failed to initialize.
Degraded(id) == rag_instances[id].client # "ok" \/ embedding_function # "ok"

\* C12: no thread waits for or runs a call into the index on a store whose
\* client or embedding function failed to initialize, and on such a store
\* add returns the empty list, search the empty result, count 0 and delete
\* false.
C12_DegradedShortCircuits ==
  /\ \A t \in Threads :
       threads[t].pc \in {"add_wait", "add_call", "search_count_wait",
                          "search_count_call", "query_wait", "query_call",
                          "count_wait", "count_call", "delete_wait", "delete_call"}
         => ~Degraded(threads[t].store)
  /\ (ret.op \in {"add", "search", "count", "delete_collection"} /\ Degraded(ret.tenant)) =>
       ret.value = CASE ret.op = "add" -> <<>>
                     [] ret.op = "search" -> {}
                     [] ret.op = "count" -> 0
                     [] ret.op = "delete_collection" -> FALSE

\* The same for the stores whose index client failed to initialize.
NoClientShortCircuits ==
  \A t \in Threads :
    threads[t].pc \in (WaitPcs \cup CallPcs) \ {"init_wait", "init_call"}
      => rag_instances[threads[t].store].client = "ok"

\* C17: at most one thread at a time is in a call into the collaborator, and
\* that thread owns the lock.
C17_MutualExclusion ==
  \A t, u \in Threads :
    threads[t].pc \in CallPcs =>
      /\ chroma_lock = t
      /\ threads[u].pc \in CallPcs => u = t

\* Witness of C17: a thread is in a call on one store while another thread
\* waits for the lock with a call on a different store.
C17_Witness ==
  \E t, u \in Threads :
    /\ threads[t].pc \in CallPcs /\ threads[u].pc \in WaitPcs
    /\ threads[t].store # threads[u].store

\* C18: the count a search has read is the count of the collection when the
\* search issues its query: no add or delete took effect in between.
C18_SearchAtomic ==
  \A t \in Threads :
    threads[t].pc = "query_call" =>
      /\ HandleLive(rag_instances[threads[t].store], index)
      /\ threads[t].count = held(index, rag_instances[threads[t].store])

\* Each single call into the collaborator runs with the lock held.
CallsHoldLock == \A t \in Threads : threads[t].pc \in CallPcs => chroma_lock = t


\* C19: whatever the interleaving of the add_document calls on a tenant, its
\* ledger holds exactly one summary per recorded key: no key has two
\* summaries, and the key a call has recorded has its summary.
C19_NoLostUpdates ==
  /\ \A id \in DOMAIN rag_instances :
       Cardinality(KeysOf(rag_instances[id].documents_info))
         = Len(rag_instances[id].documents_info)
  /\ ret.op = "add_document" =>
       ret.arg \in KeysOf(rag_instances[ret.tenant].documents_info)

\* A call that has recorded a key leaves a summary with that key.
RecordedKeyKept ==
  ret.op = "add_document" =>
    ret.arg \in KeysOf(rag_instances[ret.tenant].documents_info)


\* C20: the index client and the embedding function are each constructed at
\* most once per process, whatever the number of stores created, the time
\* at which they are created and their interleaving.
C20_ConstructedOnce ==
  /\ constructed.client <= 1
  /\ constructed.function <= 1

\* The embedding function, cached without a ttl, is constructed at most once.
FunctionConstructedOnce == constructed.function <= 1

\* Between two expiries the client is not constructed again: a cached
\* client or cached failure is what every store creation gets.
CachedClientReused ==
  [][chroma_client # "uncached" /\ chroma_client' # "uncached"
       => /\ constructed' = constructed
          /\ chroma_client' = chroma_client]_vars


(***************************************************************************)
(* Chunk length and the choice of the cut.                                 *)
(***************************************************************************)
\* C24: every chunk split_into_chunks cuts, and so every chunk it returns,
\* is at most chunk_size characters long (chunk_size being the size used,
\* estimated when the argument was omitted).
C24_ChunkLengthBound ==
  pc \in {"loop", "filter", "done"} =>
    /\ \A i \in 1..Len(chunks) : Len(chunks[i]) <= chunk_size
    /\ \A i \in 1..Len(result) : Len(result[i]) <= chunk_size

\* A call has returned several chunks, one of them of exactly chunk_size.
C24_Witness ==
  /\ pc = "done" /\ Len(result) >= 2
  /\ \E i \in 1..Len(result) : Len(result[i]) = chunk_size

\* The offsets, from the window start, of the sentence terminators and the
\* newlines inside the window at cursor s.
Candidates(s) ==
  LET window == Slice(text, s, s + chunk_size)
  IN  {j \in 0..(Len(window) - 1) : window[j + 1] \in {".", "?", "!", "\n"}}

\* The largest offset of a set of offsets, -1 for the empty set.
Latest(S) == IF S = {} THEN -1 ELSE CHOOSE j \in S : \A k \in S : k <= j

\* C25: a window that does not reach the end of the text is cut right after
\* the latest sentence terminator or newline inside it when the offset of
\* that character from the window start exceeds the overlap, and exactly
\* chunk_size characters from the window start otherwise.
C25_CutChoice ==
  pc \in {"loop", "filter", "done"} =>
    \A i \in 1..Len(windows) :
      LET s == windows[i].start
          latest == Latest(Candidates(s))
      IN  s + chunk_size < Len(text) =>
            windows[i].end = IF latest > chunk_overlap
                             THEN s + latest + 1 ELSE s + chunk_size

\* A call with a positive overlap has cut a window that does not reach the
\* end of the text after a terminator, short of chunk_size.
C25_Witness ==
  /\ pc = "done" /\ chunk_overlap >= 1
  /\ \E i \in 1..Len(windows) :
       /\ windows[i].start + chunk_size < Len(text)
       /\ windows[i].end < windows[i].start + chunk_size


(***************************************************************************)
(* The active selection.                                                   *)
(***************************************************************************)
\* C28: after any sequence of create, switch and delete calls, failed ones
\* included, the active selection is none or the id of a registered tenant.
C28_ActiveSelectionRegistered ==
  current_rag_instance = None \/ current_rag_instance \in DOMAIN rag_instances

\* A tenant has been deleted while another one was, and still is, active.
C28_Witness ==
  /\ ret.op = "delete" /\ ret.value = TRUE
  /\ ret.tenant \notin DOMAIN rag_instances
  /\ current_rag_instance \in DOMAIN rag_instances

\* The delete of the active tenant leaves no selection behind.
DeleteOfActiveDeselects ==
  [][current_rag_instance # None /\ current_rag_instance \notin DOMAIN rag_instances'
       => current_rag_instance' = None]_vars


(***************************************************************************)
(* Collaborator failures.                                                  *)
(***************************************************************************)
\* Whether the collaborator raised inside the store call ret stands for.
Raised(r) == r.arg[Len(r.arg)]

\* C22: a store call in which the collaborator raised has returned to its
\* caller, with the empty sequence for add and search, 0 for count and
\* false for delete.
C22_FailureContained ==
  (ret.op \in {"add", "search", "count", "delete_collection"} /\ Raised(ret)) =>
    CASE ret.op = "add" -> ret.value = <<>>
      [] ret.op = "search" -> ret.value = {}
      [] ret.op = "count" -> ret.value = 0
      [] ret.op = "delete_collection" -> ret.value = FALSE

\* The index raised inside a count on a store that holds records, and the
\* count has returned 0 with the lock free again.
C22_Witness ==
  /\ ret.op = "count" /\ Raised(ret) /\ ret.value = 0
  /\ ret.tenant \in DOMAIN rag_instances
  /\ held(index, rag_instances[ret.tenant]) > 0
  /\ chroma_lock = 0


LockHeldInCallsOnly ==
  chroma_lock # 0 => threads[chroma_lock].pc \in CallPcs


(***************************************************************************)
(* Ingestion.                                                              *)
(***************************************************************************)
IngestOps == {"process_uploaded_file", "process_pdf", "process_docx", "process_url"}

\* C21: an ingestion call that stored nothing in the tenant's store, its add
\* having failed or not having been made, leaves documents_info unchanged:
\* a document is recorded only when its chunks were stored.
C21_RecordedOnlyOnSuccess ==
  [][(/\ ret'.op \in IngestOps
      /\ ret'.tenant \in DOMAIN rag_instances
      /\ held(index', rag_instances'[ret'.tenant])
           = held(index, rag_instances[ret'.tenant]))
       => rag_instances'[ret'.tenant].documents_info
            = rag_instances[ret'.tenant].documents_info]_vars

\* The text file path records the document only when its chunks were stored.
TextRecordedOnlyOnSuccess ==
  [][(/\ ret'.op = "process_uploaded_file"
      /\ ret'.tenant \in DOMAIN rag_instances
      /\ held(index', rag_instances'[ret'.tenant])
           = held(index, rag_instances[ret'.tenant]))
       => rag_instances'[ret'.tenant].documents_info
            = rag_instances[ret'.tenant].documents_info]_vars


\* What an ingestion step has added to the store of the tenant it ran on.
StoredByStep ==
  held(index', rag_instances'[ret'.tenant]) - held(index, rag_instances[ret'.tenant])

\* C30: the chunk count an ingestion call returns is the number of records
\* the call has stored in the tenant's store; it is 0 when nothing was stored.
C30_ReturnedCountIsStored ==
  [][(ret'.op \in IngestOps /\ ret'.tenant \in DOMAIN rag_instances)
       => ret'.value = StoredByStep]_vars

\* process_text, which returns len(ids), returns the number of records stored.
TextReturnedCountIsStored ==
  [][(ret'.op = "process_uploaded_file" /\ ret'.tenant \in DOMAIN rag_instances)
       => ret'.value = StoredByStep]_vars

\* The chunks of the pages of a PDF that were read without an exception.
GoodChunks(pages) ==
  Cardinality({<<i, j>> \in (1..Len(pages)) \X (1..MaxBatch) :
                 pages[i] # None /\ j <= pages[i]})

\* C23: when a page of a PDF raises, and neither the reader nor the add
\* fails, the chunks of all the other pages are stored, the call returns
\* their number and, when there are any, the document is in the ledger.
C23_BadPageSkipped ==
  [][(/\ ret'.op = "process_pdf"
      /\ ret'.tenant \in DOMAIN rag_instances
      /\ ret'.arg[3] = <<FALSE, FALSE>>
      /\ \E i \in 1..Len(ret'.arg[2]) : ret'.arg[2][i] = None)
       => /\ StoredByStep = GoodChunks(ret'.arg[2])
          /\ ret'.value = GoodChunks(ret'.arg[2])
          /\ GoodChunks(ret'.arg[2]) > 0
               => <<"filename", ret'.arg[1]>>
                    \in KeysOf(rag_instances'[ret'.tenant].documents_info)]_vars

\* A PDF whose second page raised has been ingested: the chunks of its first
\* and third pages are in the store and the document is in the ledger.
C23_Witness ==
  /\ ret.op = "process_pdf" /\ ret.arg[2] = <<1, None, 1>> /\ ret.value = 2
  /\ held(index, rag_instances[ret.tenant]) = 2
  /\ <<"filename", ret.arg[1]>> \in KeysOf(rag_instances[ret.tenant].documents_info)

\* C26: an ingestion call passes the chunks of all its units to add_texts in
\* one call: it makes at most one call of add_texts.
C26_SingleBatchedAdd == Len(add_log) <= 1

\* The ingestion of a file, and that of a url without its sitemap, make at
\* most one call of add_texts.
FileSingleBatchedAdd ==
  (ret.op \in {"process_uploaded_file", "process_pdf", "process_docx"}
     \/ (ret.op = "process_url" /\ Len(ret.arg[2]) = 1))
    => Len(add_log) <= 1

\* C29: a process_url call in which no add failed has increased the record
\* count of the store by the total chunk count it returns, each chunk of
\* each page having been stored once.
C29_UrlChunksStoredOnce ==
  [][(/\ ret'.op = "process_url"
      /\ ret'.tenant \in DOMAIN rag_instances
      /\ ret'.arg[3] = <<FALSE, FALSE>>)
       => StoredByStep = ret'.value]_vars

\* Without pages from a sitemap, the chunks of the url are stored once.
MainUrlChunksStoredOnce ==
  [][(/\ ret'.op = "process_url"
      /\ ret'.tenant \in DOMAIN rag_instances
      /\ ret'.arg[3] = <<FALSE, FALSE>>
      /\ Len(ret'.arg[2]) = 1)
       => StoredByStep = ret'.value]_vars

=============================================================================
